---------------------------- MODULE Spec2Model ----------------------------
(***************************************************************************)
(* The VRL builtin `downcase` (lib/vrl/stdlib/src/downcase.rs): its        *)
(* registry entry (parameters, compile, examples, call), the compiled      *)
(* expression DowncaseFn (resolve, type_def) and the native entry point    *)
(* vrl_fn_downcase, modelled as a state machine in which one call site is  *)
(* compiled and then executed through each of the three execution entries. *)
(***************************************************************************)
EXTENDS Integers, Sequences, FiniteSets, TLC

(***************************************************************************)
(* Bounds of the model.                                                    *)
(***************************************************************************)
\* Longest byte string enumerated from Alphabet.
MaxLen == 3
\* Number of concurrently running invocations in SpecConc.
NumInv == 2

(***************************************************************************)
(* Bytes.  A byte is a number in 0..255; a Bytes payload is a sequence of  *)
(* bytes.  The alphabet holds ASCII upper case, lower case and digit, the  *)
(* lead byte of a two-byte sequence (0xC3), the lead byte of a three-byte  *)
(* sequence (0xE2), a continuation byte (0x89) and a byte that is never    *)
(* valid in UTF-8 (0xFF).                                                  *)
(***************************************************************************)
Alphabet == {65, 97, 50, 195, 226, 137, 255}

RECURSIVE SeqsUpTo(_, _)
SeqsUpTo(S, n) ==
    IF n = 0 THEN {<<>>}
    ELSE LET shorter == SeqsUpTo(S, n - 1)
         IN  shorter \cup {Append(s, x) : s \in shorter, x \in S}

\* "FOO 2 BAR": the source of Downcase::examples.
ExampleSource == <<70, 79, 79, 32, 50, 32, 66, 65, 82>>
\* "foo 2 bar": the result of Downcase::examples and of the test `simple`.
ExampleResult == <<102, 111, 111, 32, 50, 32, 98, 97, 114>>
\* "FOO 2 bar": the argument of the test `simple`.
TestSimpleArg == <<70, 79, 79, 32, 50, 32, 98, 97, 114>>

\* Strings whose lower case needs more than the mapping of single Latin-1
\* chars: U+0100 (lower case U+0101), U+0130 (lower case of two chars),
\* and the capital sigma U+03A3 at the end and at the start of a word.
CaseMappingStrings ==
    {<<196, 128>>, <<196, 176>>, <<65, 206, 163>>, <<206, 163, 97>>}

ByteStrings ==
    SeqsUpTo(Alphabet, MaxLen)
        \cup {ExampleSource, TestSimpleArg} \cup CaseMappingStrings

(***************************************************************************)
(* Value: the tagged runtime value.  Every value is a record of the same   *)
(* shape: its Kind and its payload as a sequence of numbers (the bytes of  *)
(* a Bytes value, the single number of an Integer or Boolean, nothing for  *)
(* Null).                                                                  *)
(***************************************************************************)
Bytes(b)   == [kind |-> "Bytes",   data |-> b]
Integer(n) == [kind |-> "Integer", data |-> <<n>>]
Boolean(n) == [kind |-> "Boolean", data |-> <<n>>]
Null       == [kind |-> "Null",    data |-> <<>>]

NonBytesValues == {Null, Integer(2), Boolean(1)}
Values == {Bytes(b) : b \in ByteStrings} \cup NonBytesValues

(***************************************************************************)
(* Resolved = Result<Value, ExpressionError>.  An outcome additionally     *)
(* records an abort (a panic), which is no Resolved at all.                *)
(***************************************************************************)
NoError == [class |-> "none", got |-> "none", expected |-> "none"]
\* A RuntimeError raised by the argument expression itself.
UpstreamError == [class |-> "Upstream", got |-> "none", expected |-> "none"]
\* value::Error::Expected { got, expected }: the error of a failed try_bytes.
ExpectedError(got, expected) ==
    [class |-> "Expected", got |-> got, expected |-> expected]

Ok(v)  == [status |-> "ok",    val |-> v,    err |-> NoError]
Err(e) == [status |-> "err",   val |-> Null, err |-> e]
Panic  == [status |-> "panic", val |-> Null, err |-> NoError]
\* No result yet.
Pending == [status |-> "pending", val |-> Null, err |-> NoError]

ArgResults == {Ok(v) : v \in Values} \cup {Err(UpstreamError)}

(***************************************************************************)
(* String::from_utf8_lossy.  A String is modelled as its sequence of       *)
(* Unicode scalar values.  The decoder follows the standard library's      *)
(* Utf8Chunks: a well-formed sequence yields its scalar value; a byte that *)
(* cannot start a sequence, or a lead byte together with the continuation  *)
(* bytes accepted before the first unacceptable one, is one invalid chunk  *)
(* and yields one U+FFFD REPLACEMENT CHARACTER.                            *)
(***************************************************************************)
REPLACEMENT_CHARACTER == 65533

\* core::str::utf8_char_width: 0 for a byte that cannot start a sequence.
utf8_char_width(b) ==
    IF b < 128 THEN 1
    ELSE IF b \in 194..223 THEN 2
    ELSE IF b \in 224..239 THEN 3
    ELSE IF b \in 240..244 THEN 4
    ELSE 0

\* safe_get: the byte at (1-based) index i, 0 past the end.
safe_get(s, i) == IF i <= Len(s) THEN s[i] ELSE 0

\* (byte & 192) == TAG_CONT
is_cont(b) == b \in 128..191

\* The second byte a three-byte lead accepts.
second_of_3(lead, b) ==
    \/ lead = 224 /\ b \in 160..191
    \/ lead \in 225..236 /\ b \in 128..191
    \/ lead = 237 /\ b \in 128..159
    \/ lead \in 238..239 /\ b \in 128..191

\* The second byte a four-byte lead accepts.
second_of_4(lead, b) ==
    \/ lead = 240 /\ b \in 144..191
    \/ lead \in 241..243 /\ b \in 128..191
    \/ lead = 244 /\ b \in 128..143

\* The chunk starting at index i: the scalar value it yields and the index
\* at which the next chunk starts.
utf8_chunk(s, i) ==
    LET b  == s[i]
        w  == utf8_char_width(b)
        b2 == safe_get(s, i + 1)
        b3 == safe_get(s, i + 2)
        b4 == safe_get(s, i + 3)
        bad(n) == [char |-> REPLACEMENT_CHARACTER, next |-> i + n]
    IN  CASE w = 1 -> [char |-> b, next |-> i + 1]
          [] w = 2 ->
                IF ~is_cont(b2) THEN bad(1)
                ELSE [char |-> (b - 192) * 64 + (b2 - 128), next |-> i + 2]
          [] w = 3 ->
                IF ~second_of_3(b, b2) THEN bad(1)
                ELSE IF ~is_cont(b3) THEN bad(2)
                ELSE [char |-> (b - 224) * 4096 + (b2 - 128) * 64 + (b3 - 128),
                      next |-> i + 3]
          [] w = 4 ->
                IF ~second_of_4(b, b2) THEN bad(1)
                ELSE IF ~is_cont(b3) THEN bad(2)
                ELSE IF ~is_cont(b4) THEN bad(3)
                ELSE [char |-> (b - 240) * 262144 + (b2 - 128) * 4096
                                 + (b3 - 128) * 64 + (b4 - 128),
                      next |-> i + 4]
          [] OTHER -> bad(1)

RECURSIVE lossy_from(_, _)
lossy_from(s, i) ==
    IF i > Len(s) THEN <<>>
    ELSE LET c == utf8_chunk(s, i)
         IN  <<c.char>> \o lossy_from(s, c.next)

from_utf8_lossy(bytes) == lossy_from(bytes, 1)

(***************************************************************************)
(* str::to_lowercase: every char is replaced by its Unicode lower case     *)
(* (char::to_lowercase), which is one char except for U+0130, and a        *)
(* capital sigma becomes the final sigma at the end of a word.  The tables *)
(* hold the Unicode Character Database, version 17.0.0, as runs.           *)
(***************************************************************************)

\* Runs <<first, last, step, delta>> of the chars above U+007F whose lower
\* case is one other char: every step-th char of first..last maps to
\* itself plus delta.
LOWERCASE_TABLE == <<
    <<192, 214, 1, 32>>, <<216, 222, 1, 32>>, <<256, 302, 2, 1>>,
    <<306, 310, 2, 1>>, <<313, 327, 2, 1>>, <<330, 374, 2, 1>>,
    <<376, 376, 1, -121>>, <<377, 381, 2, 1>>, <<385, 385, 1, 210>>,
    <<386, 388, 2, 1>>, <<390, 390, 1, 206>>, <<391, 391, 1, 1>>,
    <<393, 394, 1, 205>>, <<395, 395, 1, 1>>, <<398, 398, 1, 79>>,
    <<399, 399, 1, 202>>, <<400, 400, 1, 203>>, <<401, 401, 1, 1>>,
    <<403, 403, 1, 205>>, <<404, 404, 1, 207>>, <<406, 406, 1, 211>>,
    <<407, 407, 1, 209>>, <<408, 408, 1, 1>>, <<412, 412, 1, 211>>,
    <<413, 413, 1, 213>>, <<415, 415, 1, 214>>, <<416, 420, 2, 1>>,
    <<422, 422, 1, 218>>, <<423, 423, 1, 1>>, <<425, 425, 1, 218>>,
    <<428, 428, 1, 1>>, <<430, 430, 1, 218>>, <<431, 431, 1, 1>>,
    <<433, 434, 1, 217>>, <<435, 437, 2, 1>>, <<439, 439, 1, 219>>,
    <<440, 440, 1, 1>>, <<444, 444, 1, 1>>, <<452, 452, 1, 2>>,
    <<453, 453, 1, 1>>, <<455, 455, 1, 2>>, <<456, 456, 1, 1>>,
    <<458, 458, 1, 2>>, <<459, 475, 2, 1>>, <<478, 494, 2, 1>>,
    <<497, 497, 1, 2>>, <<498, 500, 2, 1>>, <<502, 502, 1, -97>>,
    <<503, 503, 1, -56>>, <<504, 542, 2, 1>>, <<544, 544, 1, -130>>,
    <<546, 562, 2, 1>>, <<570, 570, 1, 10795>>, <<571, 571, 1, 1>>,
    <<573, 573, 1, -163>>, <<574, 574, 1, 10792>>, <<577, 577, 1, 1>>,
    <<579, 579, 1, -195>>, <<580, 580, 1, 69>>, <<581, 581, 1, 71>>,
    <<582, 590, 2, 1>>, <<880, 882, 2, 1>>, <<886, 886, 1, 1>>,
    <<895, 895, 1, 116>>, <<902, 902, 1, 38>>, <<904, 906, 1, 37>>,
    <<908, 908, 1, 64>>, <<910, 911, 1, 63>>, <<913, 929, 1, 32>>,
    <<931, 939, 1, 32>>, <<975, 975, 1, 8>>, <<984, 1006, 2, 1>>,
    <<1012, 1012, 1, -60>>, <<1015, 1015, 1, 1>>, <<1017, 1017, 1, -7>>,
    <<1018, 1018, 1, 1>>, <<1021, 1023, 1, -130>>, <<1024, 1039, 1, 80>>,
    <<1040, 1071, 1, 32>>, <<1120, 1152, 2, 1>>, <<1162, 1214, 2, 1>>,
    <<1216, 1216, 1, 15>>, <<1217, 1229, 2, 1>>, <<1232, 1326, 2, 1>>,
    <<1329, 1366, 1, 48>>, <<4256, 4293, 1, 7264>>, <<4295, 4295, 1, 7264>>,
    <<4301, 4301, 1, 7264>>, <<5024, 5103, 1, 38864>>, <<5104, 5109, 1, 8>>,
    <<7305, 7305, 1, 1>>, <<7312, 7354, 1, -3008>>, <<7357, 7359, 1, -3008>>,
    <<7680, 7828, 2, 1>>, <<7838, 7838, 1, -7615>>, <<7840, 7934, 2, 1>>,
    <<7944, 7951, 1, -8>>, <<7960, 7965, 1, -8>>, <<7976, 7983, 1, -8>>,
    <<7992, 7999, 1, -8>>, <<8008, 8013, 1, -8>>, <<8025, 8031, 2, -8>>,
    <<8040, 8047, 1, -8>>, <<8072, 8079, 1, -8>>, <<8088, 8095, 1, -8>>,
    <<8104, 8111, 1, -8>>, <<8120, 8121, 1, -8>>, <<8122, 8123, 1, -74>>,
    <<8124, 8124, 1, -9>>, <<8136, 8139, 1, -86>>, <<8140, 8140, 1, -9>>,
    <<8152, 8153, 1, -8>>, <<8154, 8155, 1, -100>>, <<8168, 8169, 1, -8>>,
    <<8170, 8171, 1, -112>>, <<8172, 8172, 1, -7>>, <<8184, 8185, 1, -128>>,
    <<8186, 8187, 1, -126>>, <<8188, 8188, 1, -9>>, <<8486, 8486, 1, -7517>>,
    <<8490, 8490, 1, -8383>>, <<8491, 8491, 1, -8262>>, <<8498, 8498, 1, 28>>,
    <<8544, 8559, 1, 16>>, <<8579, 8579, 1, 1>>, <<9398, 9423, 1, 26>>,
    <<11264, 11311, 1, 48>>, <<11360, 11360, 1, 1>>, <<11362, 11362, 1, -10743>>,
    <<11363, 11363, 1, -3814>>, <<11364, 11364, 1, -10727>>, <<11367, 11371, 2, 1>>,
    <<11373, 11373, 1, -10780>>, <<11374, 11374, 1, -10749>>, <<11375, 11375, 1, -10783>>,
    <<11376, 11376, 1, -10782>>, <<11378, 11378, 1, 1>>, <<11381, 11381, 1, 1>>,
    <<11390, 11391, 1, -10815>>, <<11392, 11490, 2, 1>>, <<11499, 11501, 2, 1>>,
    <<11506, 11506, 1, 1>>, <<42560, 42604, 2, 1>>, <<42624, 42650, 2, 1>>,
    <<42786, 42798, 2, 1>>, <<42802, 42862, 2, 1>>, <<42873, 42875, 2, 1>>,
    <<42877, 42877, 1, -35332>>, <<42878, 42886, 2, 1>>, <<42891, 42891, 1, 1>>,
    <<42893, 42893, 1, -42280>>, <<42896, 42898, 2, 1>>, <<42902, 42920, 2, 1>>,
    <<42922, 42922, 1, -42308>>, <<42923, 42923, 1, -42319>>, <<42924, 42924, 1, -42315>>,
    <<42925, 42925, 1, -42305>>, <<42926, 42926, 1, -42308>>, <<42928, 42928, 1, -42258>>,
    <<42929, 42929, 1, -42282>>, <<42930, 42930, 1, -42261>>, <<42931, 42931, 1, 928>>,
    <<42932, 42946, 2, 1>>, <<42948, 42948, 1, -48>>, <<42949, 42949, 1, -42307>>,
    <<42950, 42950, 1, -35384>>, <<42951, 42953, 2, 1>>, <<42955, 42955, 1, -42343>>,
    <<42956, 42970, 2, 1>>, <<42972, 42972, 1, -42561>>, <<42997, 42997, 1, 1>>,
    <<65313, 65338, 1, 32>>, <<66560, 66599, 1, 40>>, <<66736, 66771, 1, 40>>,
    <<66928, 66964, 2, 39>>, <<66929, 66937, 2, 39>>, <<66941, 66953, 2, 39>>,
    <<66957, 66961, 2, 39>>, <<66965, 66965, 1, 39>>, <<68736, 68786, 1, 64>>,
    <<68944, 68965, 1, 32>>, <<71840, 71871, 1, 32>>, <<93760, 93791, 1, 32>>,
    <<93856, 93880, 1, 27>>, <<125184, 125217, 1, 34>>
>>

\* Ranges <<first, last>> of the chars with the property Case_Ignorable.
CASE_IGNORABLE_TABLE == <<
    <<39, 39>>, <<46, 46>>, <<58, 58>>, <<94, 94>>, <<96, 96>>,
    <<168, 168>>, <<173, 173>>, <<175, 175>>, <<180, 180>>, <<183, 184>>,
    <<688, 879>>, <<884, 885>>, <<890, 890>>, <<900, 901>>, <<903, 903>>,
    <<1155, 1161>>, <<1369, 1369>>, <<1375, 1375>>, <<1425, 1469>>, <<1471, 1471>>,
    <<1473, 1474>>, <<1476, 1477>>, <<1479, 1479>>, <<1524, 1524>>, <<1536, 1541>>,
    <<1552, 1562>>, <<1564, 1564>>, <<1600, 1600>>, <<1611, 1631>>, <<1648, 1648>>,
    <<1750, 1757>>, <<1759, 1768>>, <<1770, 1773>>, <<1807, 1807>>, <<1809, 1809>>,
    <<1840, 1866>>, <<1958, 1968>>, <<2027, 2037>>, <<2042, 2042>>, <<2045, 2045>>,
    <<2070, 2093>>, <<2137, 2139>>, <<2184, 2184>>, <<2192, 2193>>, <<2199, 2207>>,
    <<2249, 2306>>, <<2362, 2362>>, <<2364, 2364>>, <<2369, 2376>>, <<2381, 2381>>,
    <<2385, 2391>>, <<2402, 2403>>, <<2417, 2417>>, <<2433, 2433>>, <<2492, 2492>>,
    <<2497, 2500>>, <<2509, 2509>>, <<2530, 2531>>, <<2558, 2558>>, <<2561, 2562>>,
    <<2620, 2620>>, <<2625, 2626>>, <<2631, 2632>>, <<2635, 2637>>, <<2641, 2641>>,
    <<2672, 2673>>, <<2677, 2677>>, <<2689, 2690>>, <<2748, 2748>>, <<2753, 2757>>,
    <<2759, 2760>>, <<2765, 2765>>, <<2786, 2787>>, <<2810, 2815>>, <<2817, 2817>>,
    <<2876, 2876>>, <<2879, 2879>>, <<2881, 2884>>, <<2893, 2893>>, <<2901, 2902>>,
    <<2914, 2915>>, <<2946, 2946>>, <<3008, 3008>>, <<3021, 3021>>, <<3072, 3072>>,
    <<3076, 3076>>, <<3132, 3132>>, <<3134, 3136>>, <<3142, 3144>>, <<3146, 3149>>,
    <<3157, 3158>>, <<3170, 3171>>, <<3201, 3201>>, <<3260, 3260>>, <<3263, 3263>>,
    <<3270, 3270>>, <<3276, 3277>>, <<3298, 3299>>, <<3328, 3329>>, <<3387, 3388>>,
    <<3393, 3396>>, <<3405, 3405>>, <<3426, 3427>>, <<3457, 3457>>, <<3530, 3530>>,
    <<3538, 3540>>, <<3542, 3542>>, <<3633, 3633>>, <<3636, 3642>>, <<3654, 3662>>,
    <<3761, 3761>>, <<3764, 3772>>, <<3782, 3782>>, <<3784, 3790>>, <<3864, 3865>>,
    <<3893, 3893>>, <<3895, 3895>>, <<3897, 3897>>, <<3953, 3966>>, <<3968, 3972>>,
    <<3974, 3975>>, <<3981, 3991>>, <<3993, 4028>>, <<4038, 4038>>, <<4141, 4144>>,
    <<4146, 4151>>, <<4153, 4154>>, <<4157, 4158>>, <<4184, 4185>>, <<4190, 4192>>,
    <<4209, 4212>>, <<4226, 4226>>, <<4229, 4230>>, <<4237, 4237>>, <<4253, 4253>>,
    <<4348, 4348>>, <<4957, 4959>>, <<5906, 5908>>, <<5938, 5939>>, <<5970, 5971>>,
    <<6002, 6003>>, <<6068, 6069>>, <<6071, 6077>>, <<6086, 6086>>, <<6089, 6099>>,
    <<6103, 6103>>, <<6109, 6109>>, <<6155, 6159>>, <<6211, 6211>>, <<6277, 6278>>,
    <<6313, 6313>>, <<6432, 6434>>, <<6439, 6440>>, <<6450, 6450>>, <<6457, 6459>>,
    <<6679, 6680>>, <<6683, 6683>>, <<6742, 6742>>, <<6744, 6750>>, <<6752, 6752>>,
    <<6754, 6754>>, <<6757, 6764>>, <<6771, 6780>>, <<6783, 6783>>, <<6823, 6823>>,
    <<6832, 6877>>, <<6880, 6891>>, <<6912, 6915>>, <<6964, 6964>>, <<6966, 6970>>,
    <<6972, 6972>>, <<6978, 6978>>, <<7019, 7027>>, <<7040, 7041>>, <<7074, 7077>>,
    <<7080, 7081>>, <<7083, 7085>>, <<7142, 7142>>, <<7144, 7145>>, <<7149, 7149>>,
    <<7151, 7153>>, <<7212, 7219>>, <<7222, 7223>>, <<7288, 7293>>, <<7376, 7378>>,
    <<7380, 7392>>, <<7394, 7400>>, <<7405, 7405>>, <<7412, 7412>>, <<7416, 7417>>,
    <<7468, 7530>>, <<7544, 7544>>, <<7579, 7679>>, <<8125, 8125>>, <<8127, 8129>>,
    <<8141, 8143>>, <<8157, 8159>>, <<8173, 8175>>, <<8189, 8190>>, <<8203, 8207>>,
    <<8216, 8217>>, <<8228, 8228>>, <<8231, 8231>>, <<8234, 8238>>, <<8288, 8292>>,
    <<8294, 8303>>, <<8305, 8305>>, <<8319, 8319>>, <<8336, 8348>>, <<8400, 8432>>,
    <<11388, 11389>>, <<11503, 11505>>, <<11631, 11631>>, <<11647, 11647>>, <<11744, 11775>>,
    <<11823, 11823>>, <<12293, 12293>>, <<12330, 12333>>, <<12337, 12341>>, <<12347, 12347>>,
    <<12441, 12446>>, <<12540, 12542>>, <<40981, 40981>>, <<42232, 42237>>, <<42508, 42508>>,
    <<42607, 42610>>, <<42612, 42621>>, <<42623, 42623>>, <<42652, 42655>>, <<42736, 42737>>,
    <<42752, 42785>>, <<42864, 42864>>, <<42888, 42890>>, <<42993, 42996>>, <<43000, 43001>>,
    <<43010, 43010>>, <<43014, 43014>>, <<43019, 43019>>, <<43045, 43046>>, <<43052, 43052>>,
    <<43204, 43205>>, <<43232, 43249>>, <<43263, 43263>>, <<43302, 43309>>, <<43335, 43345>>,
    <<43392, 43394>>, <<43443, 43443>>, <<43446, 43449>>, <<43452, 43453>>, <<43471, 43471>>,
    <<43493, 43494>>, <<43561, 43566>>, <<43569, 43570>>, <<43573, 43574>>, <<43587, 43587>>,
    <<43596, 43596>>, <<43632, 43632>>, <<43644, 43644>>, <<43696, 43696>>, <<43698, 43700>>,
    <<43703, 43704>>, <<43710, 43711>>, <<43713, 43713>>, <<43741, 43741>>, <<43756, 43757>>,
    <<43763, 43764>>, <<43766, 43766>>, <<43867, 43871>>, <<43881, 43883>>, <<44005, 44005>>,
    <<44008, 44008>>, <<44013, 44013>>, <<64286, 64286>>, <<64434, 64450>>, <<65024, 65039>>,
    <<65043, 65043>>, <<65056, 65071>>, <<65106, 65106>>, <<65109, 65109>>, <<65279, 65279>>,
    <<65287, 65287>>, <<65294, 65294>>, <<65306, 65306>>, <<65342, 65342>>, <<65344, 65344>>,
    <<65392, 65392>>, <<65438, 65439>>, <<65507, 65507>>, <<65529, 65531>>, <<66045, 66045>>,
    <<66272, 66272>>, <<66422, 66426>>, <<67456, 67461>>, <<67463, 67504>>, <<67506, 67514>>,
    <<68097, 68099>>, <<68101, 68102>>, <<68108, 68111>>, <<68152, 68154>>, <<68159, 68159>>,
    <<68325, 68326>>, <<68900, 68903>>, <<68942, 68942>>, <<68969, 68973>>, <<68975, 68975>>,
    <<69291, 69292>>, <<69317, 69317>>, <<69370, 69375>>, <<69446, 69456>>, <<69506, 69509>>,
    <<69633, 69633>>, <<69688, 69702>>, <<69744, 69744>>, <<69747, 69748>>, <<69759, 69761>>,
    <<69811, 69814>>, <<69817, 69818>>, <<69821, 69821>>, <<69826, 69826>>, <<69837, 69837>>,
    <<69888, 69890>>, <<69927, 69931>>, <<69933, 69940>>, <<70003, 70003>>, <<70016, 70017>>,
    <<70070, 70078>>, <<70089, 70092>>, <<70095, 70095>>, <<70191, 70193>>, <<70196, 70196>>,
    <<70198, 70199>>, <<70206, 70206>>, <<70209, 70209>>, <<70367, 70367>>, <<70371, 70378>>,
    <<70400, 70401>>, <<70459, 70460>>, <<70464, 70464>>, <<70502, 70508>>, <<70512, 70516>>,
    <<70587, 70592>>, <<70606, 70606>>, <<70608, 70608>>, <<70610, 70610>>, <<70625, 70626>>,
    <<70712, 70719>>, <<70722, 70724>>, <<70726, 70726>>, <<70750, 70750>>, <<70835, 70840>>,
    <<70842, 70842>>, <<70847, 70848>>, <<70850, 70851>>, <<71090, 71093>>, <<71100, 71101>>,
    <<71103, 71104>>, <<71132, 71133>>, <<71219, 71226>>, <<71229, 71229>>, <<71231, 71232>>,
    <<71339, 71339>>, <<71341, 71341>>, <<71344, 71349>>, <<71351, 71351>>, <<71453, 71453>>,
    <<71455, 71455>>, <<71458, 71461>>, <<71463, 71467>>, <<71727, 71735>>, <<71737, 71738>>,
    <<71995, 71996>>, <<71998, 71998>>, <<72003, 72003>>, <<72148, 72151>>, <<72154, 72155>>,
    <<72160, 72160>>, <<72193, 72202>>, <<72243, 72248>>, <<72251, 72254>>, <<72263, 72263>>,
    <<72273, 72278>>, <<72281, 72283>>, <<72330, 72342>>, <<72344, 72345>>, <<72544, 72544>>,
    <<72546, 72548>>, <<72550, 72550>>, <<72752, 72758>>, <<72760, 72765>>, <<72767, 72767>>,
    <<72850, 72871>>, <<72874, 72880>>, <<72882, 72883>>, <<72885, 72886>>, <<73009, 73014>>,
    <<73018, 73018>>, <<73020, 73021>>, <<73023, 73029>>, <<73031, 73031>>, <<73104, 73105>>,
    <<73109, 73109>>, <<73111, 73111>>, <<73177, 73177>>, <<73459, 73460>>, <<73472, 73473>>,
    <<73526, 73530>>, <<73536, 73536>>, <<73538, 73538>>, <<73562, 73562>>, <<78896, 78912>>,
    <<78919, 78933>>, <<90398, 90409>>, <<90413, 90415>>, <<92912, 92916>>, <<92976, 92982>>,
    <<92992, 92995>>, <<93504, 93506>>, <<93547, 93548>>, <<94031, 94031>>, <<94095, 94111>>,
    <<94176, 94177>>, <<94179, 94180>>, <<94194, 94195>>, <<110576, 110579>>, <<110581, 110587>>,
    <<110589, 110590>>, <<113821, 113822>>, <<113824, 113827>>, <<118528, 118573>>, <<118576, 118598>>,
    <<119143, 119145>>, <<119155, 119170>>, <<119173, 119179>>, <<119210, 119213>>, <<119362, 119364>>,
    <<121344, 121398>>, <<121403, 121452>>, <<121461, 121461>>, <<121476, 121476>>, <<121499, 121503>>,
    <<121505, 121519>>, <<122880, 122886>>, <<122888, 122904>>, <<122907, 122913>>, <<122915, 122916>>,
    <<122918, 122922>>, <<122928, 122989>>, <<123023, 123023>>, <<123184, 123197>>, <<123566, 123566>>,
    <<123628, 123631>>, <<124139, 124143>>, <<124398, 124399>>, <<124643, 124643>>, <<124646, 124646>>,
    <<124654, 124655>>, <<124661, 124661>>, <<124671, 124671>>, <<125136, 125142>>, <<125252, 125259>>,
    <<127995, 127999>>, <<917505, 917505>>, <<917536, 917631>>, <<917760, 917999>>
>>

\* Ranges <<first, last>> of the chars with the property Cased.
CASED_TABLE == <<
    <<65, 90>>, <<97, 122>>, <<170, 170>>, <<181, 181>>, <<186, 186>>,
    <<192, 214>>, <<216, 246>>, <<248, 442>>, <<444, 447>>, <<452, 659>>,
    <<662, 696>>, <<704, 705>>, <<736, 740>>, <<837, 837>>, <<880, 883>>,
    <<886, 887>>, <<890, 893>>, <<895, 895>>, <<902, 902>>, <<904, 906>>,
    <<908, 908>>, <<910, 929>>, <<931, 1013>>, <<1015, 1153>>, <<1162, 1327>>,
    <<1329, 1366>>, <<1376, 1416>>, <<4256, 4293>>, <<4295, 4295>>, <<4301, 4301>>,
    <<4304, 4346>>, <<4348, 4351>>, <<5024, 5109>>, <<5112, 5117>>, <<7296, 7306>>,
    <<7312, 7354>>, <<7357, 7359>>, <<7424, 7615>>, <<7680, 7957>>, <<7960, 7965>>,
    <<7968, 8005>>, <<8008, 8013>>, <<8016, 8023>>, <<8025, 8025>>, <<8027, 8027>>,
    <<8029, 8029>>, <<8031, 8061>>, <<8064, 8116>>, <<8118, 8124>>, <<8126, 8126>>,
    <<8130, 8132>>, <<8134, 8140>>, <<8144, 8147>>, <<8150, 8155>>, <<8160, 8172>>,
    <<8178, 8180>>, <<8182, 8188>>, <<8305, 8305>>, <<8319, 8319>>, <<8336, 8348>>,
    <<8450, 8450>>, <<8455, 8455>>, <<8458, 8467>>, <<8469, 8469>>, <<8473, 8477>>,
    <<8484, 8484>>, <<8486, 8486>>, <<8488, 8488>>, <<8490, 8493>>, <<8495, 8500>>,
    <<8505, 8505>>, <<8508, 8511>>, <<8517, 8521>>, <<8526, 8526>>, <<8544, 8575>>,
    <<8579, 8580>>, <<9398, 9449>>, <<11264, 11492>>, <<11499, 11502>>, <<11506, 11507>>,
    <<11520, 11557>>, <<11559, 11559>>, <<11565, 11565>>, <<42560, 42605>>, <<42624, 42653>>,
    <<42786, 42887>>, <<42891, 42894>>, <<42896, 42972>>, <<42993, 42998>>, <<43000, 43002>>,
    <<43824, 43866>>, <<43868, 43881>>, <<43888, 43967>>, <<64256, 64262>>, <<64275, 64279>>,
    <<65313, 65338>>, <<65345, 65370>>, <<66560, 66639>>, <<66736, 66771>>, <<66776, 66811>>,
    <<66928, 66938>>, <<66940, 66954>>, <<66956, 66962>>, <<66964, 66965>>, <<66967, 66977>>,
    <<66979, 66993>>, <<66995, 67001>>, <<67003, 67004>>, <<67456, 67456>>, <<67459, 67461>>,
    <<67463, 67504>>, <<67506, 67514>>, <<68736, 68786>>, <<68800, 68850>>, <<68944, 68965>>,
    <<68976, 68997>>, <<71840, 71903>>, <<93760, 93823>>, <<93856, 93880>>, <<93883, 93907>>,
    <<119808, 119892>>, <<119894, 119964>>, <<119966, 119967>>, <<119970, 119970>>, <<119973, 119974>>,
    <<119977, 119980>>, <<119982, 119993>>, <<119995, 119995>>, <<119997, 120003>>, <<120005, 120069>>,
    <<120071, 120074>>, <<120077, 120084>>, <<120086, 120092>>, <<120094, 120121>>, <<120123, 120126>>,
    <<120128, 120132>>, <<120134, 120134>>, <<120138, 120144>>, <<120146, 120485>>, <<120488, 120512>>,
    <<120514, 120538>>, <<120540, 120570>>, <<120572, 120596>>, <<120598, 120628>>, <<120630, 120654>>,
    <<120656, 120686>>, <<120688, 120712>>, <<120714, 120744>>, <<120746, 120770>>, <<120772, 120779>>,
    <<122624, 122633>>, <<122635, 122654>>, <<122661, 122666>>, <<122928, 122989>>, <<125184, 125251>>,
    <<127280, 127305>>, <<127312, 127337>>, <<127344, 127369>>
>>

in_run(c, run) == run[1] <= c /\ c <= run[2] /\ (c - run[1]) % run[3] = 0

in_range(c, range) == range[1] <= c /\ c <= range[2]

Case_Ignorable(c) ==
    \E k \in DOMAIN CASE_IGNORABLE_TABLE : in_range(c, CASE_IGNORABLE_TABLE[k])

Cased(c) == \E k \in DOMAIN CASED_TABLE : in_range(c, CASED_TABLE[k])

\* char::to_lowercase: the chars of the lower case of c.  ASCII is mapped
\* directly, U+0130 is the one char with a lower case of two chars, the
\* other chars are looked up in the table.
to_lower(c) ==
    IF c < 128 THEN (IF c \in 65..90 THEN <<c + 32>> ELSE <<c>>)
    ELSE IF c = 304 THEN <<105, 775>>
    ELSE IF \E k \in DOMAIN LOWERCASE_TABLE : in_run(c, LOWERCASE_TABLE[k])
         THEN LET k == CHOOSE k \in DOMAIN LOWERCASE_TABLE :
                          in_run(c, LOWERCASE_TABLE[k])
              IN  <<c + LOWERCASE_TABLE[k][4]>>
         ELSE <<c>>

\* The first char of chars that is not Case_Ignorable exists and is Cased.
RECURSIVE case_ignorable_then_cased(_)
case_ignorable_then_cased(chars) ==
    IF chars = <<>> THEN FALSE
    ELSE IF Case_Ignorable(Head(chars))
         THEN case_ignorable_then_cased(Tail(chars))
         ELSE Cased(Head(chars))

reversed(chars) == [k \in 1..Len(chars) |-> chars[Len(chars) + 1 - k]]

\* The lower case of the capital sigma at position i: the final sigma
\* U+03C2 when a cased char precedes it and none follows it (Case_Ignorable
\* chars skipped on both sides), U+03C3 otherwise.
map_uppercase_sigma(from, i) ==
    LET is_word_final ==
            /\ case_ignorable_then_cased(reversed(SubSeq(from, 1, i - 1)))
            /\ ~case_ignorable_then_cased(SubSeq(from, i + 1, Len(from)))
    IN  IF is_word_final THEN 962 ELSE 963

RECURSIVE lowercase_from(_, _)
lowercase_from(str, i) ==
    IF i > Len(str) THEN <<>>
    ELSE (IF str[i] = 931 THEN <<map_uppercase_sigma(str, i)>>
          ELSE to_lower(str[i]))
         \o lowercase_from(str, i + 1)

to_lowercase(str) == lowercase_from(str, 1)

(***************************************************************************)
(* String -> Value (`.into()`): the Bytes value holding the string's UTF-8 *)
(* encoding.                                                               *)
(***************************************************************************)
encode_utf8(c) ==
    IF c < 128 THEN <<c>>
    ELSE IF c < 2048 THEN <<192 + (c \div 64), 128 + (c % 64)>>
    ELSE IF c < 65536 THEN
        <<224 + (c \div 4096), 128 + ((c \div 64) % 64), 128 + (c % 64)>>
    ELSE <<240 + (c \div 262144), 128 + ((c \div 4096) % 64),
           128 + ((c \div 64) % 64), 128 + (c % 64)>>

RECURSIVE as_bytes(_)
as_bytes(str) ==
    IF str = <<>> THEN <<>>
    ELSE encode_utf8(Head(str)) \o as_bytes(Tail(str))

into_value(str) == Bytes(as_bytes(str))

(***************************************************************************)
(* The typed accessors of Value.  A result of an accessor is              *)
(* [ok, data, err]: the payload on success, value::Error::Expected on a    *)
(* value of another Kind.                                                  *)
(***************************************************************************)
\* Value::try_bytes: the bytes of a Bytes value.
try_bytes(v) ==
    IF v.kind = "Bytes" THEN [ok |-> TRUE, data |-> v.data, err |-> NoError]
    ELSE [ok |-> FALSE, data |-> <<>>, err |-> ExpectedError(v.kind, "Bytes")]

\* Value::try_bytes_utf8_lossy: the lossily decoded text of a Bytes value.
try_bytes_utf8_lossy(v) ==
    IF v.kind = "Bytes"
    THEN [ok |-> TRUE, data |-> from_utf8_lossy(v.data), err |-> NoError]
    ELSE [ok |-> FALSE, data |-> <<>>, err |-> ExpectedError(v.kind, "Bytes")]

(***************************************************************************)
(* Downcase: the registry entry.                                           *)
(***************************************************************************)
identifier == "downcase"

\* kind::BYTES
BYTES == {"Bytes"}

\* Mutant of parameters: `value` declared optional.
parameters_value_optional ==
    <<[keyword |-> "value", kind |-> BYTES, required |-> FALSE]>>

\* Downcase::parameters
parameters ==
    <<[keyword |-> "value", kind |-> BYTES, required |-> TRUE]>>

(***************************************************************************)
(* Call sites.  A call site maps each keyword it supplies to an argument   *)
(* expression; an argument expression is described by the Kind set of its  *)
(* TypeDef.  What the expression evaluates to depends on the runtime       *)
(* context it is resolved in (see ctx below).                              *)
(***************************************************************************)
ArgExpr(kind) == [kind |-> kind]

Site(keywords, kind) == [k \in keywords |-> ArgExpr(kind)]

\* downcase(value: <bytes expression>)
GoodSite == Site({"value"}, BYTES)

CallSites ==
    { GoodSite,
      Site({"value"}, {"Integer"}),        \* statically not Bytes
      Site({}, BYTES),                     \* `value` omitted
      Site({"other"}, BYTES),              \* `value` omitted, unknown keyword
      Site({"value", "other"}, BYTES) }    \* unknown keyword

NoCompileError == [class |-> "none", keyword |-> "none"]
CompileError(class, keyword) == [class |-> class, keyword |-> keyword]

NoExpr == [value |-> ArgExpr({})]
\* Compiled = Result<Box<dyn Expression>, CompileError>; "panic" is an abort
\* of the compile step and "pending" a site not compiled yet.
Compiled(expr)   == [status |-> "ok",      expr |-> expr,   err |-> NoCompileError]
CompileErr(e)    == [status |-> "err",     expr |-> NoExpr, err |-> e]
CompilePanic     == [status |-> "panic",   expr |-> NoExpr, err |-> NoCompileError]
NotCompiled      == [status |-> "pending", expr |-> NoExpr, err |-> NoCompileError]

Keywords(params) == {params[k].keyword : k \in DOMAIN params}

(***************************************************************************)
(* The argument binder (section 4.2 of the specification): every required  *)
(* parameter must be supplied, every supplied argument's Kind must be      *)
(* accepted by its parameter, and no unknown keyword may be supplied.      *)
(***************************************************************************)
bind_arguments(params, site) ==
    LET missing  == {k \in DOMAIN params :
                        params[k].required /\ params[k].keyword \notin DOMAIN site}
        mismatch == {k \in DOMAIN params :
                        /\ params[k].keyword \in DOMAIN site
                        /\ ~(site[params[k].keyword].kind \subseteq params[k].kind)}
        unknown  == DOMAIN site \ Keywords(params)
        first(S) == CHOOSE k \in S : \A j \in S : k <= j
    IN  IF missing # {}
        THEN [ok |-> FALSE,
              err |-> CompileError("MissingArgument", params[first(missing)].keyword)]
        ELSE IF mismatch # {}
        THEN [ok |-> FALSE,
              err |-> CompileError("TypeMismatch", params[first(mismatch)].keyword)]
        ELSE IF unknown # {}
        THEN [ok |-> FALSE,
              err |-> CompileError("UnknownKeyword", CHOOSE k \in unknown : TRUE)]
        ELSE [ok |-> TRUE, err |-> NoCompileError]

\* Downcase::compile: `arguments.required("value")` aborts on an argument
\* list without the keyword; otherwise Ok(Box::new(DowncaseFn { value })).
compile(arguments) ==
    IF "value" \notin DOMAIN arguments THEN CompilePanic
    ELSE Compiled([value |-> arguments["value"]])

\* Compiling a call site: the binder, then the function's compile step.
compile_call(site) ==
    LET bound == bind_arguments(parameters, site)
    IN  IF ~bound.ok THEN CompileErr(bound.err) ELSE compile(site)

\* The compiler states (`state::Compiler`) a call site is compiled under:
\* without and with declared variables.
CompilerStates == {"empty", "with_variables"}

\* Mutant of type_def: the Kind is taken from the argument's TypeDef.
type_def_of_argument(self, state) ==
    [kind |-> self.value.kind, fallible |-> FALSE]

\* DowncaseFn::type_def: TypeDef::new().bytes().infallible()
type_def(self, state) == [kind |-> BYTES, fallible |-> FALSE]

(***************************************************************************)
(* The three execution entries, each as a function of the Resolved its     *)
(* argument comes as.                                                      *)
(***************************************************************************)
\* Mutant of resolve: a value that is not Bytes is handed back unchanged.
resolve_passes_non_bytes(value) ==
    IF value.status # "ok" THEN value
    ELSE LET bytes == try_bytes(value.val)
         IN  IF ~bytes.ok THEN Ok(value.val)
             ELSE Ok(into_value(to_lowercase(from_utf8_lossy(bytes.data))))

\* Mutant of resolve: the argument's error is replaced by resolve's own.
resolve_replaces_error(value) ==
    IF value.status # "ok" THEN Err(ExpectedError("Null", "Bytes"))
    ELSE LET bytes == try_bytes(value.val)
         IN  IF ~bytes.ok THEN Err(bytes.err)
             ELSE Ok(into_value(to_lowercase(from_utf8_lossy(bytes.data))))

\* DowncaseFn::resolve, given the result of self.value.resolve(ctx).
resolve(value) ==
    IF value.status # "ok" THEN value
    ELSE LET bytes == try_bytes(value.val)
         IN  IF ~bytes.ok THEN Err(bytes.err)
             ELSE Ok(into_value(to_lowercase(from_utf8_lossy(bytes.data))))

\* u8::to_ascii_lowercase applied to every char: only A-Z are mapped.
RECURSIVE to_ascii_lowercase(_)
to_ascii_lowercase(str) ==
    IF str = <<>> THEN <<>>
    ELSE <<IF Head(str) \in 65..90 THEN Head(str) + 32 ELSE Head(str)>>
         \o to_ascii_lowercase(Tail(str))

\* Mutant of call: the text is returned without to_lowercase.
call_without_lowercase(value) ==
    LET text == try_bytes_utf8_lossy(value)
    IN  IF ~text.ok THEN Panic
        ELSE Ok(into_value(text.data))

\* Mutant of call: to_ascii_lowercase in place of to_lowercase.
call_ascii_lowercase(value) ==
    LET text == try_bytes_utf8_lossy(value)
    IN  IF ~text.ok THEN Panic
        ELSE Ok(into_value(to_ascii_lowercase(text.data)))

\* Downcase::call, given the value of args.required("value"): the Value it
\* returns (as Ok), or the abort of `unwrap` on a failed accessor.
call(value) ==
    LET text == try_bytes_utf8_lossy(value)
    IN  IF ~text.ok THEN Panic
        ELSE Ok(into_value(to_lowercase(text.data)))

\* Mutant of vrl_fn_downcase: a value that is not Bytes is read as empty.
vrl_fn_downcase_no_type_check(value) ==
    IF value.status # "ok" THEN value
    ELSE LET bytes == try_bytes(value.val)
         IN  IF ~bytes.ok THEN Ok(into_value(<<>>))
             ELSE Ok(into_value(to_lowercase(from_utf8_lossy(bytes.data))))

\* Mutant of vrl_fn_downcase: String::from_utf8 in place of from_utf8_lossy,
\* an error on bytes that are not valid UTF-8.
vrl_fn_downcase_strict_utf8(value) ==
    IF value.status # "ok" THEN value
    ELSE LET bytes == try_bytes(value.val)
         IN  IF ~bytes.ok THEN Err(bytes.err)
             ELSE IF as_bytes(from_utf8_lossy(bytes.data)) # bytes.data
             THEN Err([class |-> "FromUtf8", got |-> "none", expected |-> "none"])
             ELSE Ok(into_value(to_lowercase(from_utf8_lossy(bytes.data))))

\* vrl_fn_downcase: what the closure computes from the moved input.
vrl_fn_downcase(value) ==
    IF value.status # "ok" THEN value
    ELSE LET bytes == try_bytes(value.val)
         IN  IF ~bytes.ok THEN Err(bytes.err)
             ELSE Ok(into_value(to_lowercase(from_utf8_lossy(bytes.data))))

\* Mutant of swap: the input is copied, the slot is left as it was.
swap_copies(a, b) == [a |-> a, b |-> a]

\* std::mem::swap(a, b): what a and b hold afterwards.
swap(a, b) == [a |-> b, b |-> a]

\* Mutant of resolved_slot: one output buffer shared by all invocations.
resolved_slot_shared(i) == 1

\* The slot an invocation of vrl_fn_downcase writes its result to: its own
\* `resolved` reference.
resolved_slot(i) == i

(***************************************************************************)
(* State.                                                                  *)
(***************************************************************************)
VARIABLES
    site,       \* the call site being compiled
    compiled,   \* the result of compiling it
    entry,      \* per invocation: the execution entry it goes through
    ctx,        \* per invocation: what the argument evaluates to in its context
    pc,         \* per invocation: "start", "arg" (argument obtained), "done"
    local,      \* per invocation: the local `value` / `moved`
    evals,      \* per invocation: how often the argument expression was resolved
    value,      \* per invocation: the input slot (vrl_fn_downcase)
    resolved,   \* per invocation: the output slot (vrl_fn_downcase)
    ret,        \* per invocation: what resolve / call returned
    cstate,     \* the compiler state the site is compiled under
    compiled2   \* the result of compiling the same site a second time

\* The state of the downcase call site and its invocations.
dvars == <<site, compiled, entry, ctx, pc, local, evals, value, resolved, ret,
           cstate, compiled2>>

(***************************************************************************)
(* State of `vector top` (src/top/cmd.rs): the command, the event channel  *)
(* and the connection task it spawns.                                      *)
(***************************************************************************)
VARIABLES
    is_tty,         \* is_tty(): the terminal is a teletype
    no_reconnect,   \* opts.no_reconnect
    api_up,         \* the Vector API answers requests
    main_pc,        \* cmd: "tty_check", "healthcheck", "setup", "init_dashboard",
                    \* "dashboard", "returned"
    exit_code,      \* cmd: the exit code returned, "none" before
    health,         \* the result of client.healthcheck(): "none" before, "ok", "err"
    channel,        \* the event channel (tx, rx): "none" or "open"
    queue,          \* number of events in the channel
    dashboard,      \* init_dashboard was called
    conn_pc,        \* the connection task's position, "unspawned" before the spawn
    iter,           \* number of the loop iteration (init_components calls), saturating
    events,         \* events sent by the connection task, each with its iteration
    status,         \* the last ConnectionUpdated status sent, "none" before
    subs,           \* subscription tasks of metrics::subscribe still running
    failed,         \* a failure or disconnect happened since the last init_components call
    slept,          \* milliseconds slept since that failure or disconnect
    shutdown_sent,  \* number of shutdown_tx.send(()) calls
    abort           \* connection.abort(): "none" before; "polled" when it was
                    \* called while the task was being polled, "running" once
                    \* the task has taken a step after it

topvars == <<is_tty, no_reconnect, api_up, main_pc, exit_code, health,
             channel, queue, dashboard, conn_pc, iter, events, status, subs,
             failed, slept, shutdown_sent, abort>>

vars == <<dvars, topvars>>

\* `vector top` not started: the state the downcase specifications keep.
TopIdle ==
    /\ is_tty = TRUE
    /\ no_reconnect = FALSE
    /\ api_up = TRUE
    /\ main_pc = "tty_check"
    /\ exit_code = "none"
    /\ health = "none"
    /\ channel = "none"
    /\ queue = 0
    /\ dashboard = FALSE
    /\ conn_pc = "unspawned"
    /\ iter = 0
    /\ events = <<>>
    /\ status = "none"
    /\ subs = 0
    /\ failed = FALSE
    /\ slept = 0
    /\ shutdown_sent = 0
    /\ abort = "none"

Ids == DOMAIN entry

EntryPoints == <<"resolve", "call", "vrl_fn_downcase">>

\* What an output slot may hold before the call.
StaleSlots == {Ok(Null), Err(UpstreamError)}

\* An invocation of `e` whose argument evaluates to `r`: the VM has put the
\* resolved argument into the input slot of a native call.
InitInvocations(ids, out) ==
    /\ pc = [i \in ids |-> "start"]
    /\ local = [i \in ids |-> Pending]
    /\ evals = [i \in ids |-> 0]
    /\ value = [i \in ids |-> IF entry[i] = "vrl_fn_downcase" THEN ctx[i] ELSE Pending]
    /\ resolved = [i \in ids |-> IF entry[i] = "vrl_fn_downcase" THEN out ELSE Pending]
    /\ ret = [i \in ids |-> Pending]
    /\ compiled = NotCompiled
    /\ compiled2 = NotCompiled

\* One call site, executed through each of the three entries with the same
\* argument.
Init ==
    /\ site \in CallSites
    /\ entry = EntryPoints
    /\ \E r \in ArgResults : ctx = [i \in 1..3 |-> r]
    /\ \E out \in StaleSlots : InitInvocations(1..3, out)
    /\ cstate \in CompilerStates
    /\ TopIdle

\* Inputs of concurrently running invocations.
ConcInputs ==
    {Ok(Bytes(<<65>>)), Ok(Bytes(<<255, 195>>)), Ok(Integer(2)), Err(UpstreamError)}

\* Several invocations, each through any entry and with its own context and
\* slots.
InitConc ==
    /\ site = GoodSite
    /\ entry \in [1..NumInv -> {EntryPoints[k] : k \in 1..3}]
    /\ ctx \in [1..NumInv -> ConcInputs]
    /\ InitInvocations(1..NumInv, Ok(Null))
    /\ cstate = "empty"
    /\ TopIdle

(***************************************************************************)
(* Actions.                                                                *)
(***************************************************************************)
Compile ==
    /\ compiled.status = "pending"
    /\ compiled' = compile_call(site)
    /\ UNCHANGED <<site, entry, ctx, pc, local, evals, value, resolved, ret,
                   cstate, compiled2, topvars>>

\* Downcase::compile, once more on the same call site and compiler state
Recompile ==
    /\ compiled.status # "pending"
    /\ compiled2.status = "pending"
    /\ compiled2' = compile_call(site)
    /\ UNCHANGED <<site, compiled, entry, ctx, pc, local, evals, value, resolved,
                   ret, cstate, topvars>>

Runnable(i, e, at) ==
    /\ compiled.status = "ok"
    /\ entry[i] = e
    /\ pc[i] = at

\* resolve: `self.value.resolve(ctx)`
ResolveArgument(i) ==
    /\ Runnable(i, "resolve", "start")
    /\ local' = [local EXCEPT ![i] = ctx[i]]
    /\ evals' = [evals EXCEPT ![i] = @ + 1]
    /\ pc' = [pc EXCEPT ![i] = "arg"]
    /\ UNCHANGED <<site, compiled, entry, ctx, value, resolved, ret,
                   cstate, compiled2, topvars>>

\* resolve: `?.try_bytes()?` and the Ok(...) it returns
ResolveReturn(i) ==
    /\ Runnable(i, "resolve", "arg")
    /\ ret' = [ret EXCEPT ![i] = resolve(local[i])]
    /\ pc' = [pc EXCEPT ![i] = "done"]
    /\ UNCHANGED <<site, compiled, entry, ctx, local, evals, value, resolved,
                   cstate, compiled2, topvars>>

\* call: `args.required("value")`; the VM calls with resolved values only
CallRequired(i) ==
    /\ Runnable(i, "call", "start")
    /\ ctx[i].status = "ok"
    /\ local' = [local EXCEPT ![i] = ctx[i]]
    /\ pc' = [pc EXCEPT ![i] = "arg"]
    /\ UNCHANGED <<site, compiled, entry, ctx, evals, value, resolved, ret,
                   cstate, compiled2, topvars>>

\* call: `value.try_bytes_utf8_lossy().unwrap().to_lowercase().into()`
CallReturn(i) ==
    /\ Runnable(i, "call", "arg")
    /\ ret' = [ret EXCEPT ![i] = call(local[i].val)]
    /\ pc' = [pc EXCEPT ![i] = "done"]
    /\ UNCHANGED <<site, compiled, entry, ctx, local, evals, value, resolved,
                   cstate, compiled2, topvars>>

\* vrl_fn_downcase: swap Ok(Null) into the input slot
NativeMove(i) ==
    /\ Runnable(i, "vrl_fn_downcase", "start")
    /\ LET after == swap(value[i], Ok(Null))
       IN  /\ value' = [value EXCEPT ![i] = after.a]
           /\ local' = [local EXCEPT ![i] = after.b]
    /\ pc' = [pc EXCEPT ![i] = "arg"]
    /\ UNCHANGED <<site, compiled, entry, ctx, evals, resolved, ret,
                   cstate, compiled2, topvars>>

\* vrl_fn_downcase: `*resolved = (|| { ... })()`
NativeWrite(i) ==
    /\ Runnable(i, "vrl_fn_downcase", "arg")
    /\ resolved' = [resolved EXCEPT ![resolved_slot(i)] = vrl_fn_downcase(local[i])]
    /\ pc' = [pc EXCEPT ![i] = "done"]
    /\ UNCHANGED <<site, compiled, entry, ctx, local, evals, value, ret,
                   cstate, compiled2, topvars>>

Next ==
    \/ Compile
    \/ Recompile
    \/ \E i \in Ids : ResolveArgument(i)
    \/ \E i \in Ids : ResolveReturn(i)
    \/ \E i \in Ids : CallRequired(i)
    \/ \E i \in Ids : CallReturn(i)
    \/ \E i \in Ids : NativeMove(i)
    \/ \E i \in Ids : NativeWrite(i)

Spec == Init /\ [][Next]_vars

SpecConc == InitConc /\ [][Next]_vars

\* The result of a finished invocation.
Result(i) == IF entry[i] = "vrl_fn_downcase" THEN resolved[i] ELSE ret[i]

Done(i) == pc[i] = "done"

BytesInput(i) == ctx[i].status = "ok" /\ ctx[i].val.kind = "Bytes"

NonBytesInput(i) == ctx[i].status = "ok" /\ ctx[i].val.kind # "Bytes"

(***************************************************************************)
(* Claims.                                                                 *)
(***************************************************************************)

\* C1: for every Bytes value bound to `value`, Downcase::call returns
\* exactly the Value that DowncaseFn::resolve returns as Ok when its
\* argument expression evaluates to that value.
C1_CallEqualsResolve ==
    \A i, j \in Ids :
        ( /\ entry[i] = "call" /\ entry[j] = "resolve"
          /\ Done(i) /\ Done(j)
          /\ ctx[i] = ctx[j] /\ BytesInput(i) )
        => /\ ret[j].status = "ok"
           /\ ret[i] = ret[j]

\* Both paths have finished on the bytes C3 89 41 ("ÉA") and both returned
\* the bytes C3 A9 61.
C1_Witness ==
    /\ ctx[1] = Ok(Bytes(<<195, 137, 65>>))
    /\ Done(1) /\ Done(2)
    /\ ret[1] = Ok(Bytes(<<195, 169, 97>>))
    /\ ret[2] = Ok(Bytes(<<195, 169, 97>>))

\* C2: whatever the input slot holds (Ok of a value of any Kind, or Err),
\* vrl_fn_downcase writes into the output slot what DowncaseFn::resolve
\* returns when its argument evaluates to the same content: the same Value,
\* or the same error.
C2_NativeEqualsResolve ==
    \A i, j \in Ids :
        ( /\ entry[i] = "vrl_fn_downcase" /\ entry[j] = "resolve"
          /\ Done(i) /\ Done(j)
          /\ ctx[i] = ctx[j] )
        => resolved[i] = ret[j]

\* Both have finished on an Integer and both report Expected{Integer, Bytes}.
C2_Witness ==
    /\ ctx[3] = Ok(Integer(2))
    /\ Done(1) /\ Done(3)
    /\ resolved[3] = Err(ExpectedError("Integer", "Bytes"))
    /\ ret[1] = resolved[3]

\* C3: an expression whose type_def reports fallible = false never returns
\* an error from resolve; DowncaseFn::resolve returns no error for any
\* argument expression bound to `value`.
C3_InfallibleNeverFails ==
    \A i \in Ids :
        ( /\ entry[i] = "resolve" /\ Done(i)
          /\ ~type_def(compiled.expr, cstate).fallible )
        => ret[i].status # "err"

\* C4: when the runtime value of `value` is not Bytes, every execution
\* entry (resolve, call, vrl_fn_downcase) reports a RuntimeError; none
\* aborts and none returns a value.
C4_NonBytesIsRuntimeError ==
    \A i \in Ids :
        (Done(i) /\ NonBytesInput(i)) => Result(i).status = "err"

IsAscii(b) == \A k \in DOMAIN b : b[k] < 128

\* `out` is `b` with every ASCII upper-case letter replaced by its lower
\* case and every other byte unchanged and in place.
AsciiDowncased(b, out) ==
    /\ Len(out) = Len(b)
    /\ \A k \in DOMAIN b :
          out[k] = IF b[k] \in 65..90 THEN b[k] + 32 ELSE b[k]

\* The lower case of the char at position k of a decoded text: an ASCII
\* upper-case letter becomes its lower-case letter, every other ASCII char
\* stays, a char outside ASCII becomes its Unicode lower case (one or two
\* chars; the capital sigma by its place in the word).
LowerAt(text, k) ==
    LET c == text[k]
    IN  IF c \in 65..90 THEN <<c + 32>>
        ELSE IF c < 128 THEN <<c>>
        ELSE IF c = 931 THEN <<map_uppercase_sigma(text, k)>>
        ELSE to_lower(c)

RECURSIVE LoweredFrom(_, _)
LoweredFrom(text, k) ==
    IF k > Len(text) THEN <<>>
    ELSE LowerAt(text, k) \o LoweredFrom(text, k + 1)

\* C5 as stated: downcase maps every ASCII upper-case letter of its input
\* to the lower-case letter and leaves every other character unchanged and
\* in place ("FOO 2 BAR" and "FOO 2 bar" both give "foo 2 bar"); the
\* compiled expression's type_def is {Bytes, fallible: false}; resolve,
\* call and vrl_fn_downcase each produce this value.
C5_OnlyAsciiUpperCaseChanges ==
    /\ compiled.status = "ok"
          => type_def(compiled.expr, cstate) = [kind |-> {"Bytes"}, fallible |-> FALSE]
    /\ \A i \in Ids :
          (Done(i) /\ BytesInput(i))
          => /\ Result(i).status = "ok"
             /\ Result(i).val.kind = "Bytes"
             /\ AsciiDowncased(ctx[i].val.data, Result(i).val.data)
    /\ \A i \in Ids :
          (Done(i) /\ ctx[i] \in {Ok(Bytes(ExampleSource)), Ok(Bytes(TestSimpleArg))})
          => Result(i) = Ok(Bytes(ExampleResult))

\* C5, amended: downcase returns the UTF-8 bytes of its input's text (the
\* input decoded with U+FFFD in place of every ill-formed sequence) in
\* which every ASCII upper-case letter is replaced by the lower-case
\* letter, every other ASCII character is unchanged, and every character
\* outside ASCII is replaced by its Unicode lower case, in the input's
\* order; on an ASCII input the result therefore has the input's length
\* with every other character in place ("FOO 2 BAR" and "FOO 2 bar" both
\* give "foo 2 bar"); the compiled expression's type_def is {Bytes,
\* fallible: false}; resolve, call and vrl_fn_downcase each produce this
\* value.
C5_DowncaseText ==
    /\ compiled.status = "ok"
          => type_def(compiled.expr, cstate) = [kind |-> {"Bytes"}, fallible |-> FALSE]
    /\ \A i \in Ids :
          (Done(i) /\ BytesInput(i))
          => LET b    == ctx[i].val.data
                 out  == Result(i).val.data
                 text == from_utf8_lossy(b)
             IN  /\ Result(i).status = "ok"
                 /\ Result(i).val.kind = "Bytes"
                 /\ out = as_bytes(LoweredFrom(text, 1))
                 /\ IsAscii(b) => AsciiDowncased(b, out)
    /\ \A i \in Ids :
          (Done(i) /\ ctx[i] \in {Ok(Bytes(ExampleSource)), Ok(Bytes(TestSimpleArg))})
          => Result(i) = Ok(Bytes(ExampleResult))

\* All three entries have finished on "A" followed by C3 89 (U+00C9) and
\* produced "a" followed by C3 A9 (U+00E9): the ASCII letter and the letter
\* outside ASCII are both lowered.
C5_Witness ==
    /\ compiled = Compiled([value |-> ArgExpr(BYTES)])
    /\ \A i \in Ids :
          /\ ctx[i] = Ok(Bytes(<<65, 195, 137>>))
          /\ Done(i)
          /\ Result(i) = Ok(Bytes(<<97, 195, 169>>))

\* C6: whenever resolve, call or vrl_fn_downcase succeeds, the Value it
\* produces is of Kind Bytes, a member of the Kind set type_def declares.
C6_ResultKindIsDeclared ==
    \A i \in Ids :
        (Done(i) /\ Result(i).status = "ok")
        => /\ Result(i).val.kind = "Bytes"
           /\ Result(i).val.kind \in type_def(compiled.expr, cstate).kind

\* All three entries have succeeded on bytes that are not valid UTF-8, and
\* each result is a Bytes value.
C6_Witness ==
    /\ ctx[1] = Ok(Bytes(<<255>>))
    /\ \A i \in Ids :
          Done(i) /\ Result(i).status = "ok" /\ Result(i).val.kind = "Bytes"

\* C7: compiling a call that omits `value` yields a CompileError naming the
\* keyword `value` (no expression, no abort); a call that supplies a
\* keyword other than `value` yields a CompileError.
C7_ArgumentBinding ==
    compiled.status # "pending" =>
        /\ "value" \notin DOMAIN site
              => /\ compiled.status = "err"
                 /\ compiled.err = CompileError("MissingArgument", "value")
        /\ DOMAIN site \ {"value"} # {}
              => compiled.status = "err"

\* The site that omits `value` and supplies an unknown keyword has been
\* compiled and rejected for the missing `value`.
C7_Witness ==
    /\ DOMAIN site = {"other"}
    /\ compiled = CompileErr(CompileError("MissingArgument", "value"))

\* C8: if the argument of downcase evaluates to a RuntimeError, resolve
\* returns that same error and vrl_fn_downcase writes that same error into
\* the output slot; resolve evaluates its argument exactly once, and no
\* lower-case value is produced.
C8_ErrorPropagates ==
    \A i \in Ids :
        /\ evals[i] <= 1
        /\ (entry[i] = "resolve" /\ pc[i] # "start") => evals[i] = 1
        /\ entry[i] # "resolve" => evals[i] = 0
        /\ (Done(i) /\ ctx[i].status = "err")
              => /\ Result(i) = ctx[i]
                 /\ Result(i).val.kind # "Bytes"

\* resolve and vrl_fn_downcase have both finished on an argument error.
C8_Witness ==
    /\ ctx[1] = Err(UpstreamError)
    /\ Done(1) /\ Done(3)
    /\ ret[1] = Err(UpstreamError)
    /\ resolved[3] = Err(UpstreamError)
    /\ evals[1] = 1

\* The bytes are well-formed UTF-8: every chunk is a complete sequence.
RECURSIVE valid_from(_, _)
valid_from(s, i) ==
    IF i > Len(s) THEN TRUE
    ELSE LET w == utf8_char_width(s[i])
         IN  /\ w > 0
             /\ utf8_chunk(s, i).next = i + w
             /\ valid_from(s, i + w)

ValidUtf8(s) == valid_from(s, 1)

\* The bytes EF BF BD (U+FFFD) occur in s.
HasReplacement(s) ==
    \E k \in 1..(Len(s) - 2) : <<s[k], s[k + 1], s[k + 2]>> = <<239, 191, 189>>

\* C9: for every Bytes input, bytes that are not valid text included,
\* resolve, call and vrl_fn_downcase all succeed: invalid sequences are
\* replaced instead of causing a RuntimeError, and the result is the lower
\* case of the coerced text.
C9_LossyCoercion ==
    \A i \in Ids :
        (Done(i) /\ BytesInput(i))
        => LET b   == ctx[i].val.data
               out == Result(i).val.data
           IN  /\ Result(i).status = "ok"
               /\ Result(i).val.kind = "Bytes"
               /\ ValidUtf8(out)
               /\ ~ValidUtf8(b) => HasReplacement(out)
               /\ ValidUtf8(b) => from_utf8_lossy(out) = to_lowercase(from_utf8_lossy(b))
               /\ out = as_bytes(to_lowercase(from_utf8_lossy(b)))
               /\ to_lowercase(from_utf8_lossy(out)) = from_utf8_lossy(out)

\* All three entries have finished on E2 89 41 (a truncated three-byte
\* sequence, then "A") and produced U+FFFD followed by "a".
C9_Witness ==
    /\ ctx[1] = Ok(Bytes(<<226, 137, 65>>))
    /\ \A i \in Ids : Done(i) /\ Result(i) = Ok(Bytes(<<239, 191, 189, 97>>))

\* What an invocation of entry e returns when it runs alone on argument r.
Alone(e, r) ==
    CASE e = "resolve" -> resolve(r)
      [] e = "call" -> call(r.val)
      [] e = "vrl_fn_downcase" -> vrl_fn_downcase(r)

\* Everything that belongs to invocation i.
Own(i) == <<pc[i], local[i], evals[i], value[i], resolved[i], ret[i]>>

\* C10: concurrent evaluations do not interfere: in every interleaving
\* each invocation gets the result it gets when run alone, and a step of
\* one invocation writes nothing that belongs to another.
C10_NoInterference ==
    [][ \A i \in Ids :
          /\ pc'[i] = pc[i] => Own(i)' = Own(i)
          /\ (pc'[i] = "done" /\ pc[i] # "done")
                => Result(i)' = Alone(entry[i], ctx[i])
          /\ (pc'[i] # pc[i] /\ entry[i] # "vrl_fn_downcase")
                => <<value'[i], resolved'[i]>> = <<value[i], resolved[i]>>
          /\ (pc'[i] # pc[i] /\ entry[i] = "vrl_fn_downcase")
                => ret'[i] = ret[i]
      ]_vars

\* Invocation 1 (vrl_fn_downcase on an Integer) has finished while
\* invocation 2 (resolve on bytes) is between its two steps.
C10_Witness ==
    /\ entry[1] = "vrl_fn_downcase" /\ entry[2] = "resolve"
    /\ ctx[1] = Ok(Integer(2)) /\ ctx[2] = Ok(Bytes(<<255, 195>>))
    /\ Done(1) /\ pc[2] = "arg"
    /\ resolved[1] = Err(ExpectedError("Integer", "Bytes"))
    /\ value[1] = Ok(Null)

\* C11: compiling the same downcase call site twice with the same compiler
\* state gives the same outcome both times (success for a well-formed
\* site) and expressions with identical type_def results; type_def depends
\* neither on the compiler state nor on the bound argument expression.
C11_CompileIdempotent ==
    compiled2.status # "pending" =>
        /\ compiled2.status = compiled.status
        /\ site = GoodSite => compiled.status = "ok"
        /\ compiled.status = "ok" =>
              /\ type_def(compiled2.expr, cstate) = type_def(compiled.expr, cstate)
              /\ \A state \in CompilerStates :
                    \A kind \in {BYTES, {"Integer"}, {"Bytes", "Null"}} :
                        type_def([value |-> ArgExpr(kind)], state)
                            = type_def(compiled.expr, cstate)

\* downcase(value: <bytes expression>) has been compiled twice under a
\* compiler state with declared variables, both times to an expression.
C11_Witness ==
    /\ site = GoodSite
    /\ cstate = "with_variables"
    /\ compiled.status = "ok"
    /\ compiled2 = compiled

\* C18: vrl_fn_downcase consumes its input slot: after the call the input
\* slot holds Ok(Null) whatever it held before, the output slot holds the
\* new result whatever it held before, and nothing else is modified.
C18_NativeFrame ==
    [][ \A i \in Ids :
          (entry[i] = "vrl_fn_downcase" /\ pc'[i] # pc[i]) =>
              /\ value'[i] = Ok(Null)
              /\ pc'[i] = "arg" => resolved'[i] = resolved[i]
              /\ pc'[i] = "done" => resolved'[i] = vrl_fn_downcase(ctx[i])
              /\ <<evals'[i], ret'[i]>> = <<evals[i], ret[i]>>
              /\ \A j \in Ids \ {i} : Own(j)' = Own(j)
              /\ UNCHANGED <<site, compiled, entry, ctx, cstate, compiled2>>
      ]_vars

\* The native entry has finished on "A": the input slot holds Ok(Null),
\* the output slot holds "a", and the other invocations' slots are untouched.
C18_Witness ==
    /\ entry[3] = "vrl_fn_downcase" /\ Done(3)
    /\ ctx[3] = Ok(Bytes(<<65>>))
    /\ value[3] = Ok(Null)
    /\ resolved[3] = Ok(Bytes(<<97>>))
    /\ resolved[1] = Pending /\ resolved[2] = Pending

(***************************************************************************)
(* `vector top` (src/top/cmd.rs).                                          *)
(***************************************************************************)
\* Bounds: the loop iterations whose events are recorded (the counter
\* saturates at MaxIter) and the subscription tasks of metrics::subscribe.
MaxIter == 3
NumSubs == 2

\* const RECONNECT_DELAY: u64 = 5000
RECONNECT_DELAY == 5000
\* tokio::sync::mpsc::channel(20)
CHANNEL_CAPACITY == 20

\* `if !is_tty() { return exitcode::IOERR; }`
after_tty_check(tty) == IF ~tty THEN "return_ioerr" ELSE "healthcheck"

\* Mutant of after_healthcheck: the result of the healthcheck is ignored.
after_healthcheck_ignored(ok) == "setup"

\* `if client.healthcheck().await.is_err() { return exitcode::UNAVAILABLE; }`
after_healthcheck(ok) == IF ~ok THEN "return_unavailable" ELSE "setup"

\* Mutant of after_init_components: the state is not sent; a successful
\* call goes on to connect.
after_init_components_skips_event(ok) == IF ok THEN "connect" ELSE "sleep"

\* `match metrics::init_components(&client).await`: Ok goes on to send
\* InitializeState, Err sleeps and continues the loop.
after_init_components(ok) == IF ok THEN "send_initialize" ELSE "sleep"

\* Mutant of after_connect: a failed connect leaves the loop.
after_connect_gives_up(ok) == IF ok THEN "subscribe" ELSE "ended"

\* Mutant of after_connect: a failed connect is reported as a disconnect.
after_connect_reports_disconnect(ok) ==
    IF ok THEN "subscribe" ELSE "send_disconnected"

\* `match connect_subscription_client(ws_url.clone()).await`: Ok goes on to
\* subscribe, Err sleeps and continues the loop.
after_connect(ok) == IF ok THEN "subscribe" ELSE "sleep"

\* Mutant of after_disconnected: the shutdown is sent whatever the option.
after_disconnected_always_shutdown(no_rec) == "shutdown"

\* `if opts_clone.no_reconnect { shutdown_tx.send(()); break; }`, else the
\* next iteration.
after_disconnected(no_rec) == IF no_rec THEN "shutdown" ELSE "init_components"

Event(type, n) == [type |-> type, iter |-> n]

\* The events of the iterations below MaxIter are recorded.
Record(type) ==
    IF iter < MaxIter THEN Append(events, Event(type, iter)) ELSE events

Running == main_pc # "returned"

InitTop ==
    /\ is_tty \in BOOLEAN
    /\ no_reconnect \in BOOLEAN
    /\ api_up \in BOOLEAN
    /\ main_pc = "tty_check"
    /\ exit_code = "none"
    /\ health = "none"
    /\ channel = "none"
    /\ queue = 0
    /\ dashboard = FALSE
    /\ conn_pc = "unspawned"
    /\ iter = 0
    /\ events = <<>>
    /\ status = "none"
    /\ subs = 0
    /\ failed = FALSE
    /\ slept = 0
    /\ shutdown_sent = 0
    /\ abort = "none"
    \* no downcase call site is being executed
    /\ site = GoodSite
    /\ compiled = NotCompiled
    /\ compiled2 = NotCompiled
    /\ cstate = "empty"
    /\ entry = <<>>
    /\ ctx = <<>>
    /\ pc = <<>>
    /\ local = <<>>
    /\ evals = <<>>
    /\ value = <<>>
    /\ resolved = <<>>
    /\ ret = <<>>

inputs == <<is_tty, no_reconnect>>
conn_state ==
    <<conn_pc, iter, events, status, subs, failed, slept, shutdown_sent, abort>>

\* Positions at which the task cannot be suspended: the code that follows
\* is synchronous (metrics::subscribe, shutdown_tx.send).
SyncPoints == {"subscribe", "shutdown"}

\* Positions of a task that exists and has neither finished nor been
\* cancelled.
TaskAlive == conn_pc \notin {"unspawned", "ended", "aborted"}

\* The poll that was running when connection.abort() was called goes on:
\* after the step at which it was caught, the task is in a stretch that
\* ends at its next suspension.
polled_once(a) == IF a = "polled" THEN "running" ELSE a

\* An await that has to suspend (a request to the API, a timer) cannot
\* complete once the task runs on after connection.abort(): the task is
\* cancelled there.
MaySuspendAndResume == abort # "running"

\* cmd: the TTY check
TtyCheck ==
    /\ main_pc = "tty_check"
    /\ LET to == after_tty_check(is_tty)
       IN  IF to = "return_ioerr"
           THEN main_pc' = "returned" /\ exit_code' = "IOERR"
           ELSE main_pc' = to /\ exit_code' = exit_code
    /\ UNCHANGED <<dvars, inputs, api_up, health, channel, queue, dashboard, conn_state>>

\* cmd: Client::new(url).healthcheck()
Healthcheck ==
    /\ main_pc = "healthcheck"
    /\ health' = IF api_up THEN "ok" ELSE "err"
    /\ LET to == after_healthcheck(api_up)
       IN  IF to = "return_unavailable"
           THEN main_pc' = "returned" /\ exit_code' = "UNAVAILABLE"
           ELSE main_pc' = to /\ exit_code' = exit_code
    /\ UNCHANGED <<dvars, inputs, api_up, channel, queue, dashboard, conn_state>>

\* cmd: the event channel, state::updater, the shutdown channel and the
\* spawn of the connection task
Spawn ==
    /\ main_pc = "setup"
    /\ channel' = "open"
    /\ conn_pc' = "init_components"
    /\ main_pc' = "init_dashboard"
    /\ UNCHANGED <<dvars, inputs, api_up, exit_code, health, queue, dashboard,
                   iter, events, status, subs, failed, slept, shutdown_sent,
                   abort>>

\* cmd: init_dashboard(...) is called
DashboardStart ==
    /\ main_pc = "init_dashboard"
    /\ dashboard' = TRUE
    /\ main_pc' = "dashboard"
    /\ UNCHANGED <<dvars, inputs, api_up, exit_code, health, channel, queue, conn_state>>

\* cmd: init_dashboard returns (the user quit, the shutdown signal arrived,
\* or a terminal error); connection.abort() and the exit code.  The abort
\* cancels a suspended task at once; a task that is being polled on another
\* worker thread runs on to its next suspension.
DashboardReturn(ok) ==
    /\ main_pc = "dashboard"
    /\ \E in_poll \in BOOLEAN :
          IF conn_pc = "ended"
          THEN UNCHANGED <<conn_pc, abort>>
          ELSE IF in_poll \/ conn_pc \in SyncPoints
               THEN conn_pc' = conn_pc /\ abort' = "polled"
               ELSE conn_pc' = "aborted" /\ abort' = abort
    /\ exit_code' = IF ok THEN "OK" ELSE "IOERR"
    /\ main_pc' = "returned"
    /\ UNCHANGED <<dvars, inputs, api_up, health, channel, queue, dashboard,
                   iter, events, status, subs, failed, slept, shutdown_sent>>

\* The poll of an aborted task returns Pending at an await: the runtime
\* drops the task.
Cancel ==
    /\ abort # "none"
    /\ TaskAlive /\ conn_pc \notin SyncPoints
    /\ conn_pc' = "aborted"
    /\ UNCHANGED <<dvars, inputs, api_up, main_pc, exit_code, health, channel,
                   queue, dashboard, iter, events, status, subs, failed, slept,
                   shutdown_sent, abort>>

\* connection task: metrics::init_components(&client)
InitComponents ==
    /\ conn_pc = "init_components"
    /\ MaySuspendAndResume
    /\ conn_pc' = after_init_components(api_up)
    /\ iter' = IF iter < MaxIter THEN iter + 1 ELSE iter
    /\ failed' = ~api_up
    /\ slept' = 0
    /\ abort' = polled_once(abort)
    /\ UNCHANGED <<dvars, inputs, api_up, main_pc, exit_code, health, channel,
                   queue, dashboard, events, status, subs, shutdown_sent>>

\* connection task: tokio::time::sleep(RECONNECT_DELAY); continue
Sleep ==
    /\ conn_pc = "sleep"
    /\ MaySuspendAndResume
    /\ slept' = RECONNECT_DELAY
    /\ conn_pc' = "init_components"
    /\ abort' = polled_once(abort)
    /\ UNCHANGED <<dvars, inputs, api_up, main_pc, exit_code, health, channel,
                   queue, dashboard, iter, events, status, subs, failed,
                   shutdown_sent>>

\* tx.send(event).await: completes when the channel has room
Send(type) ==
    /\ queue < CHANNEL_CAPACITY
    /\ queue' = queue + 1
    /\ events' = Record(type)

\* connection task: tx.send(EventType::InitializeState(state))
SendInitialize ==
    /\ conn_pc = "send_initialize"
    /\ Send("InitializeState")
    /\ conn_pc' = "connect"
    /\ abort' = polled_once(abort)
    /\ UNCHANGED <<dvars, inputs, api_up, main_pc, exit_code, health, channel,
                   dashboard, iter, status, subs, failed, slept, shutdown_sent>>

\* connection task: connect_subscription_client(ws_url)
Connect ==
    /\ conn_pc = "connect"
    /\ MaySuspendAndResume
    /\ conn_pc' = after_connect(api_up)
    /\ failed' = ~api_up
    /\ abort' = polled_once(abort)
    /\ UNCHANGED <<dvars, inputs, api_up, main_pc, exit_code, health, channel,
                   queue, dashboard, iter, events, status, subs, slept,
                   shutdown_sent>>

\* connection task: metrics::subscribe(...) spawns the subscription tasks
Subscribe ==
    /\ conn_pc = "subscribe"
    /\ subs' = NumSubs
    /\ conn_pc' = "send_connected"
    /\ abort' = polled_once(abort)
    /\ UNCHANGED <<dvars, inputs, api_up, main_pc, exit_code, health, channel,
                   queue, dashboard, iter, events, status, failed, slept,
                   shutdown_sent>>

\* connection task: tx.send(ConnectionUpdated(Connected(now)))
SendConnected ==
    /\ conn_pc = "send_connected"
    /\ Send("Connected")
    /\ status' = "Connected"
    /\ conn_pc' = "join"
    /\ abort' = polled_once(abort)
    /\ UNCHANGED <<dvars, inputs, api_up, main_pc, exit_code, health, channel,
                   dashboard, iter, subs, failed, slept, shutdown_sent>>

\* connection task: join_all(finished).await
Join ==
    /\ conn_pc = "join"
    /\ subs = 0
    /\ conn_pc' = "send_disconnected"
    /\ abort' = polled_once(abort)
    /\ UNCHANGED <<dvars, inputs, api_up, main_pc, exit_code, health, channel,
                   queue, dashboard, iter, events, status, subs, failed, slept,
                   shutdown_sent>>

\* connection task: tx.send(ConnectionUpdated(Disconnected(RECONNECT_DELAY)))
\* and the test of opts.no_reconnect
SendDisconnected ==
    /\ conn_pc = "send_disconnected"
    /\ Send("Disconnected")
    /\ status' = "Disconnected"
    /\ failed' = TRUE
    /\ slept' = 0
    /\ conn_pc' = after_disconnected(no_reconnect)
    /\ abort' = polled_once(abort)
    /\ UNCHANGED <<dvars, inputs, api_up, main_pc, exit_code, health, channel,
                   dashboard, iter, subs, shutdown_sent>>

\* connection task: shutdown_tx.send(()); break
Shutdown ==
    /\ conn_pc = "shutdown"
    /\ shutdown_sent' = shutdown_sent + 1
    /\ conn_pc' = "ended"
    /\ abort' = polled_once(abort)
    /\ UNCHANGED <<dvars, inputs, api_up, main_pc, exit_code, health, channel,
                   queue, dashboard, iter, events, status, subs, failed, slept>>

\* a subscription task sends a metrics event through its clone of tx
SubscriptionSend ==
    /\ subs > 0
    /\ queue < CHANNEL_CAPACITY
    /\ queue' = queue + 1
    /\ UNCHANGED <<dvars, inputs, api_up, main_pc, exit_code, health, channel,
                   dashboard, conn_state>>

\* a subscription stream completes (the web socket dropped): its task ends
SubscriptionEnd ==
    /\ subs > 0
    /\ subs' = subs - 1
    /\ UNCHANGED <<dvars, inputs, api_up, main_pc, exit_code, health, channel,
                   queue, dashboard, conn_pc, iter, events, status, failed,
                   slept, shutdown_sent, abort>>

\* state::updater receives an event from the channel
Drain ==
    /\ channel = "open"
    /\ queue > 0
    /\ queue' = queue - 1
    /\ UNCHANGED <<dvars, inputs, api_up, main_pc, exit_code, health, channel,
                   dashboard, conn_state>>

\* the Vector API becomes reachable or unreachable
ApiChange ==
    /\ Running \/ TaskAlive
    /\ api_up' = ~api_up
    /\ UNCHANGED <<dvars, inputs, main_pc, exit_code, health, channel, queue,
                   dashboard, conn_state>>

NextTop ==
    \/ TtyCheck
    \/ Healthcheck
    \/ Spawn
    \/ DashboardStart
    \/ \E ok \in BOOLEAN : DashboardReturn(ok)
    \/ Cancel
    \/ InitComponents
    \/ Sleep
    \/ SendInitialize
    \/ Connect
    \/ Subscribe
    \/ SendConnected
    \/ Join
    \/ SendDisconnected
    \/ Shutdown
    \/ SubscriptionSend
    \/ SubscriptionEnd
    \/ Drain
    \/ ApiChange

SpecTop == InitTop /\ [][NextTop]_vars

\* The tasks are scheduled and their awaits complete: every step of the
\* connection task that stays possible is taken, the updater keeps
\* receiving, and a send that is possible again and again completes (the
\* channel serves its senders in order).
SpecTopLive ==
    /\ InitTop
    /\ [][NextTop]_vars
    /\ WF_vars(InitComponents)
    /\ WF_vars(Sleep)
    /\ WF_vars(Connect)
    /\ WF_vars(Subscribe)
    /\ WF_vars(Join)
    /\ WF_vars(Shutdown)
    /\ SF_vars(SendInitialize)
    /\ SF_vars(SendConnected)
    /\ SF_vars(SendDisconnected)
    /\ WF_vars(Drain)
    /\ WF_vars(Cancel)

\* C12: the connection task waits RECONNECT_DELAY before every attempt to
\* reconnect: between any failure or disconnect and the next call of
\* init_components there is a sleep of RECONNECT_DELAY.
C12_DelayBeforeReconnect ==
    (conn_pc = "init_components" /\ failed) => slept >= RECONNECT_DELAY

\* Nothing of the dashboard session exists: no channel, no connection
\* task, no event, no dashboard.
NothingStarted ==
    /\ channel = "none" /\ queue = 0
    /\ conn_pc = "unspawned" /\ iter = 0
    /\ events = <<>> /\ status = "none"
    /\ ~dashboard
    /\ shutdown_sent = 0

\* C13: cmd returns IOERR without any healthcheck when the terminal is not
\* a TTY, and UNAVAILABLE when the initial healthcheck fails; in both cases
\* no channel is created, no connection task is spawned, no event is sent
\* and the dashboard is never initialized.
C13_EarlyExit ==
    /\ (~is_tty /\ main_pc # "tty_check")
          => /\ main_pc = "returned" /\ exit_code = "IOERR"
             /\ health = "none"
             /\ NothingStarted
    /\ health = "err"
          => /\ main_pc = "returned" /\ exit_code = "UNAVAILABLE"
             /\ NothingStarted
    /\ exit_code = "UNAVAILABLE" => (is_tty /\ health = "err")

\* cmd has returned UNAVAILABLE after a failed healthcheck.
C13_Witness ==
    /\ is_tty /\ health = "err"
    /\ main_pc = "returned" /\ exit_code = "UNAVAILABLE"

\* C14: every Connected event is preceded, in the same loop iteration, by
\* the InitializeState event of a fresh init_components call, so between
\* any two Connected events there is an InitializeState event.
C14_StateReinitialized ==
    /\ \A k \in DOMAIN events :
          events[k].type = "Connected"
          => /\ k > 1
             /\ events[k - 1] = Event("InitializeState", events[k].iter)
    /\ \A k, l \in DOMAIN events :
          (k < l /\ events[k].type = "Connected" /\ events[l].type = "Connected")
          => /\ events[k].iter < events[l].iter
             /\ \E m \in (k + 1)..(l - 1) :
                   events[m] = Event("InitializeState", events[l].iter)

\* The task has connected in iteration 1, lost the connection, and
\* connected again in iteration 2 after sending the state again.
C14_Witness ==
    /\ Len(events) = 5
    /\ events[2] = Event("Connected", 1)
    /\ events[4] = Event("InitializeState", 2)
    /\ events[5] = Event("Connected", 2)

\* The connection task is not running: never spawned, or aborted by cmd.
NotRunning == conn_pc \in {"unspawned", "aborted"}

\* C15: with no_reconnect unset the connection task never gives up: after
\* every failure of init_components or connect_subscription_client and
\* after every disconnect it calls init_components again, and if from some
\* point on the API calls succeed, a Connected event is eventually sent
\* (while cmd runs and the event channel is drained).
C15_NeverGivesUp ==
    /\ (conn_pc = "sleep") ~> (conn_pc = "init_components" \/ NotRunning)
    /\ (conn_pc = "send_disconnected" /\ ~no_reconnect)
          ~> (conn_pc = "init_components" \/ NotRunning)
    /\ (conn_pc = "init_components")
          ~> (conn_pc \in {"send_initialize", "sleep"} \/ NotRunning)
    /\ no_reconnect \/ []<>(~api_up \/ status = "Connected" \/ NotRunning)

\* The task has connected in its second iteration, after a failure and the
\* sleep that follows it, with no_reconnect unset.
C15_Witness ==
    /\ ~no_reconnect
    /\ events = <<Event("InitializeState", 2), Event("Connected", 2)>>
    /\ status = "Connected"

\* The ConnectionUpdated events among the recorded events.
RECURSIVE StatusEvents(_)
StatusEvents(log) ==
    IF log = <<>> THEN <<>>
    ELSE IF Head(log).type \in {"Connected", "Disconnected"}
         THEN <<Head(log)>> \o StatusEvents(Tail(log))
         ELSE StatusEvents(Tail(log))

\* C16: Connected and Disconnected events strictly alternate, starting
\* with Connected; a Disconnected event is sent only after the Connected
\* event of the same iteration and after all subscription tasks have
\* finished, and none is sent for an iteration that failed in
\* init_components or connect_subscription_client.
C16_StatusAlternates ==
    LET st == StatusEvents(events)
    IN  /\ \A k \in DOMAIN st :
              st[k].type = IF k % 2 = 1 THEN "Connected" ELSE "Disconnected"
        /\ \A k \in DOMAIN events :
              events[k].type = "Disconnected"
              => /\ k > 1
                 /\ events[k - 1] = Event("Connected", events[k].iter)
        /\ conn_pc = "send_disconnected" => (subs = 0 /\ status = "Connected")
        /\ (status = "Disconnected" /\ conn_pc \in {"init_components", "shutdown", "ended"})
              => subs = 0
        /\ conn_pc \in {"sleep", "send_initialize", "connect", "subscribe", "send_connected"}
              => status # "Connected"

\* Two iterations have each sent Connected and then Disconnected.
C16_Witness ==
    /\ Len(events) = 6
    /\ events[2] = Event("Connected", 1) /\ events[3] = Event("Disconnected", 1)
    /\ events[5] = Event("Connected", 2) /\ events[6] = Event("Disconnected", 2)

\* C17: the shutdown signal is sent at most once, only with no_reconnect
\* set and after an established subscription has ended (after a Connected
\* and then a Disconnected event); after it the task has left the loop for
\* good; a failure of init_components or connect_subscription_client does
\* not trigger it (the task sleeps and retries), and with no_reconnect
\* unset it is never sent.
C17_ShutdownOnce ==
    /\ shutdown_sent <= 1
    /\ shutdown_sent = 1
          => /\ no_reconnect
             /\ conn_pc = "ended"
             /\ status = "Disconnected"
             /\ iter < MaxIter
                   => /\ Len(events) >= 3
                      /\ events[Len(events) - 1] = Event("Connected", iter)
                      /\ events[Len(events)] = Event("Disconnected", iter)
    /\ conn_pc \in {"shutdown", "ended"} => (no_reconnect /\ status = "Disconnected")
    /\ conn_pc = "ended" => shutdown_sent = 1
    /\ (failed /\ status # "Disconnected")
          => (shutdown_sent = 0 /\ conn_pc \in {"sleep", "init_components", "aborted"})
    /\ ~no_reconnect => shutdown_sent = 0

\* With no_reconnect set, the first attempt failed, the second connected,
\* the subscription ended and the shutdown signal was sent.
C17_Witness ==
    /\ no_reconnect
    /\ shutdown_sent = 1
    /\ conn_pc = "ended"
    /\ events = <<Event("InitializeState", 2), Event("Connected", 2),
                  Event("Disconnected", 2)>>

=============================================================================
